---- MODULE Spec2Model ----
(***************************************************************************)
(* A model of the property-CRM backend (src/main.py, src/models.py): the   *)
(* relational store and the request handlers that read and write it.       *)
(*                                                                         *)
(* The store is the committed content of the database.  A handler is one   *)
(* action: it reads the store, builds the session's pending writes and     *)
(* either commits them all or rolls them all back.  Where requests of two  *)
(* workers interleave, a handler is split in two steps, its reads and its  *)
(* commit, and the request in between is held in `inflight`.               *)
(*                                                                         *)
(* Ids are positions: a table is a sequence in insertion order and a row's *)
(* id is its index (no handler deletes a row).  Amounts are kept in        *)
(* hundredths of a rupee so that the template's percentages are exact.     *)
(***************************************************************************)
EXTENDS Integers, Sequences, FiniteSets, TLC

VARIABLES
    users,      \* users table: id -> [active_leads_count, capacity]
    leads,      \* leads table: id -> [phone, status, owner_id, next_followup, last_contact]
    units,      \* units table: id -> [status, booking_id]
    bookings,   \* bookings table: id -> [lead_id, unit_id, deal_amount, booking_amount, status]
    schedules,  \* payment_schedules table, in insertion order
    documents,  \* documents table: id -> [booking_id, type, file_name]
    interactions, \* interactions table: id -> [lead_id, type, next_followup_date]
    inflight,   \* requests that have done their reads and not yet committed
    resp        \* the last response sent: [op, code]

vars == <<users, leads, units, bookings, schedules, documents, interactions, inflight, resp>>

(***************************************************************************)
(* Bounds of the model.                                                    *)
(***************************************************************************)
MaxBookings == 3
MaxInFlight == 2
MaxCapacity == 2
MaxLedgerBookings == 1

(***************************************************************************)
(* Values.                                                                 *)
(***************************************************************************)
\* Python's None for an Optional[float] / a NULL integer column.
None == -1
\* A NULL foreign key (ids start at 1).
NoId == 0
\* An amount of rupees in hundredths.
Rupees(x) == x * 100
\* deal_amount * 0.<pct>, in hundredths of a rupee.
Percent(amount, pct) == amount * pct
\* Python truthiness of an Optional[float]: None and 0 are false.
Truthy(x) == x # None /\ x # 0

Milestones ==
    <<"Booking Token", "Allotment", "Agreement Signing", "Bank Disbursement", "Possession">>

\* The store as one value, for the operators that compute a transaction.
Db ==
    [users |-> users, leads |-> leads, units |-> units,
     bookings |-> bookings, schedules |-> schedules,
     documents |-> documents, interactions |-> interactions]

\* The store becomes db (a commit's effect, or none after a rollback).
SetDb(db) ==
    /\ users' = db.users
    /\ leads' = db.leads
    /\ units' = db.units
    /\ bookings' = db.bookings
    /\ schedules' = db.schedules
    /\ documents' = db.documents
    /\ interactions' = db.interactions

\* A rollback that keeps what db.flush() had already sent: the booking row.
RollbackKeepsFlushed(db, tx) == [db EXCEPT !.bookings = tx.bookings]

\* db.rollback(): the session's pending writes, flushed or not, are dropped.
Rollback(db, tx) == db

\* A worker that holds no request.
Idle == [op |-> "idle"]

\* What an UPDATE leaves in a column: the session sends a column only when the
\* value it assigned differs from the value it had read.
Written(current, read, assigned) == IF assigned # read THEN assigned ELSE current

Response(op, code) == [op |-> op, code |-> code]

(***************************************************************************)
(* create_booking                                                          *)
(***************************************************************************)
\* The template with the percentages rebalanced to sum to 100.
ScheduleTemplateRebalanced(id, deal_amount, booking_amount) ==
    LET row(m, a, p, s) ==
            [booking_id |-> id, milestone |-> m, amount |-> a, payer |-> p,
             status |-> s, payment_ref |-> "none", payment_date |-> "none"]
    IN  << row("Booking Token",
               IF Truthy(booking_amount) THEN Rupees(booking_amount)
                                         ELSE Percent(deal_amount, 10),
               "Customer",
               IF Truthy(booking_amount) THEN "Paid" ELSE "Pending"),
           row("Allotment", Percent(deal_amount, 25), "Customer", "Pending"),
           row("Agreement Signing", Percent(deal_amount, 10), "Customer", "Pending"),
           row("Bank Disbursement", Percent(deal_amount, 50), "Bank Loan", "Pending"),
           row("Possession", Percent(deal_amount, 5), "Customer", "Pending") >>

\* The five schedule rows of the fixed template.
ScheduleTemplate(id, deal_amount, booking_amount) ==
    LET row(m, a, p, s) ==
            [booking_id |-> id, milestone |-> m, amount |-> a, payer |-> p,
             status |-> s, payment_ref |-> "none", payment_date |-> "none"]
    IN  << row("Booking Token",
               IF Truthy(booking_amount) THEN Rupees(booking_amount)
                                         ELSE Percent(deal_amount, 10),
               "Customer",
               IF Truthy(booking_amount) THEN "Paid" ELSE "Pending"),
           row("Allotment", Percent(deal_amount, 25), "Customer", "Pending"),
           row("Agreement Signing", Percent(deal_amount, 10), "Customer", "Pending"),
           row("Bank Disbursement", Percent(deal_amount, 60), "Bank Loan", "Pending"),
           row("Possession", Percent(deal_amount, 5), "Customer", "Pending") >>

\* The unit write: only if the unit exists; no check of its present status.
BlockUnit(us, unit_id, id) ==
    IF unit_id \in DOMAIN us
    THEN [us EXCEPT ![unit_id] = [status |-> "Blocked", booking_id |-> id]]
    ELSE us

\* The lead write: only if the lead exists.
BookLead(ls, lead_id) ==
    IF lead_id \in DOMAIN ls
    THEN [ls EXCEPT ![lead_id].status = "BOOKED", ![lead_id].next_followup = "none"]
    ELSE ls

\* The session's content when create_booking reaches db.commit().
CreateBookingTx(db, b) ==
    LET id == Len(db.bookings) + 1
    IN  [db EXCEPT
            !.bookings = Append(@, [lead_id |-> b.lead_id, unit_id |-> b.unit_id,
                                    deal_amount |-> b.deal_amount,
                                    booking_amount |-> b.booking_amount,
                                    status |-> "PENDING"]),
            !.units = BlockUnit(@, b.unit_id, id),
            !.leads = BookLead(@, b.lead_id),
            !.schedules = @ \o ScheduleTemplate(id, b.deal_amount, b.booking_amount)]

\* The INSERT of the booking row is refused by the database when its foreign
\* keys (lead_id -> leads.id, created_by = 1 -> users.id) name no row.
BookingForeignKeysHold(db, b) ==
    /\ b.lead_id \in DOMAIN db.leads
    /\ 1 \in DOMAIN db.users

\* The whole handler.  dbfail: the database raises at commit.
CreateBookingResult(db, b, dbfail) ==
    LET tx == CreateBookingTx(db, b)
    IN  IF BookingForeignKeysHold(db, b) /\ ~dbfail
        THEN [db |-> tx, code |-> 200]
        ELSE [db |-> Rollback(db, tx), code |-> 500]

create_booking(b, dbfail) ==
    /\ LET r == CreateBookingResult(Db, b, dbfail)
       IN  /\ SetDb(r.db)
           /\ resp' = Response("create_booking", r.code)
    /\ UNCHANGED inflight

\* create_booking in two steps, for requests that interleave.  db.flush()
\* sends the INSERT of the booking: the row takes the next id and stays
\* invisible to other sessions until the commit (status "none" marks an id
\* taken by a row not committed); the unit and the lead are read after it.
CreateBookingRead(db, b) ==
    [op |-> "create_booking", b |-> b, id |-> Len(db.bookings) + 1,
     unit |-> IF b.unit_id \in DOMAIN db.units
              THEN db.units[b.unit_id] ELSE [status |-> "none", booking_id |-> NoId],
     lead |-> db.leads[b.lead_id]]

\* The commit writing the unit only when it finds it Available.
CreateBookingCommitIfAvailable(db, r) ==
    [db EXCEPT
        !.bookings[r.id].status = "PENDING",
        !.units = IF r.b.unit_id \in DOMAIN @ /\ @[r.b.unit_id].status = "Available"
                  THEN BlockUnit(@, r.b.unit_id, r.id) ELSE @,
        !.leads[r.b.lead_id] =
            [@ EXCEPT !.status = Written(@, r.lead.status, "BOOKED"),
                      !.next_followup = Written(@, r.lead.next_followup, "none")],
        !.schedules = @ \o ScheduleTemplate(r.id, r.b.deal_amount, r.b.booking_amount)]

\* db.commit(): the booking row becomes visible, the UPDATEs of the unit and
\* of the lead carry the columns whose assigned value differs from the one
\* read, and the five schedule rows are inserted.
CreateBookingCommit(db, r) ==
    [db EXCEPT
        !.bookings[r.id].status = "PENDING",
        !.units = IF r.b.unit_id \in DOMAIN @
                  THEN [@ EXCEPT ![r.b.unit_id] =
                          [status |-> Written(@.status, r.unit.status, "Blocked"),
                           booking_id |-> Written(@.booking_id, r.unit.booking_id, r.id)]]
                  ELSE @,
        !.leads[r.b.lead_id] =
            [@ EXCEPT !.status = Written(@, r.lead.status, "BOOKED"),
                      !.next_followup = Written(@, r.lead.next_followup, "none")],
        !.schedules = @ \o ScheduleTemplate(r.id, r.b.deal_amount, r.b.booking_amount)]

\* The handler up to its db.commit(), on worker w: the INSERT is refused at
\* the flush (500), or the worker holds the id and what it read.
create_booking_read(w, b) ==
    /\ inflight[w] = Idle
    /\ IF BookingForeignKeysHold(Db, b)
       THEN /\ inflight' = [inflight EXCEPT ![w] = CreateBookingRead(Db, b)]
            /\ bookings' = Append(bookings,
                                  [lead_id |-> b.lead_id, unit_id |-> b.unit_id,
                                   deal_amount |-> b.deal_amount,
                                   booking_amount |-> b.booking_amount,
                                   status |-> "none"])
            /\ UNCHANGED resp
       ELSE /\ resp' = Response("create_booking", 500)
            /\ UNCHANGED <<inflight, bookings>>
    /\ UNCHANGED <<users, leads, units, schedules, documents, interactions>>

\* The handler's db.commit() on worker w, and its answer.  dbfail: the
\* database raises, the session rolls back and the id stays unused.
create_booking_commit(w, dbfail) ==
    /\ inflight[w] # Idle
    /\ inflight[w].op = "create_booking"
    /\ IF dbfail
       THEN /\ SetDb(Db)
            /\ resp' = Response("create_booking", 500)
       ELSE /\ SetDb(CreateBookingCommit(Db, inflight[w]))
            /\ resp' = Response("create_booking", 200)
    /\ inflight' = [inflight EXCEPT ![w] = Idle]

(***************************************************************************)
(* create_booking_with_upload                                              *)
(***************************************************************************)
\* The multipart form: booking_data is a JSON text, decodable or not, and the
\* cheque part is absent or a file under the name the client gave it.
NoFile == "none"
JsonDecodeRaises(booking_data) == booking_data.json = "malformed"

\* aiofiles.open(UPLOAD_DIR / "cheques" / f"{uuid}_{filename}", "wb") raises
\* when the client's filename has a directory part: no such directory.
FileOpenRaises(filename) == filename \in {"scans/cheque.png"}

ChequeDocument(booking_id, filename) ==
    [booking_id |-> booking_id, type |-> "Cheque", file_name |-> filename]

\* The handler going on to the cheque whatever create_booking answered.
UploadAttachesRegardless(db, booking_data, cheque, dbfail, docfail) ==
    IF JsonDecodeRaises(booking_data)
    THEN [db |-> db, code |-> 400]
    ELSE LET result == CreateBookingResult(db, booking_data.payload, dbfail)
         IN  IF cheque # NoFile
             THEN [db |-> [result.db EXCEPT !.documents =
                              Append(@, ChequeDocument(Len(result.db.bookings), cheque))],
                   code |-> result.code]
             ELSE result

\* The whole handler.  create_booking commits the booking (or rolls back and
\* raises, which the handler answers with 500); then, if a cheque came, the
\* file is written and the Document row committed on its own.  dbfail: the
\* database raises at the booking's commit; docfail: at the document's.
CreateBookingWithUploadResult(db, booking_data, cheque, dbfail, docfail) ==
    IF JsonDecodeRaises(booking_data)
    THEN [db |-> db, code |-> 400]
    ELSE LET result == CreateBookingResult(db, booking_data.payload, dbfail)
         IN  IF result.code # 200
             THEN [db |-> db, code |-> 500]
             ELSE IF cheque = NoFile
             THEN result
             ELSE IF FileOpenRaises(cheque) \/ docfail
             THEN [db |-> result.db, code |-> 500]
             ELSE [db |-> [result.db EXCEPT !.documents =
                              Append(@, ChequeDocument(Len(result.db.bookings), cheque))],
                   code |-> 200]

create_booking_with_upload(booking_data, cheque, dbfail, docfail) ==
    /\ LET r == CreateBookingWithUploadResult(Db, booking_data, cheque, dbfail, docfail)
       IN  /\ SetDb(r.db)
           /\ resp' = Response("create_booking_with_upload", r.code)
    /\ UNCHANGED inflight

(***************************************************************************)
(* confirm_booking, cancel_booking                                         *)
(***************************************************************************)
\* confirm_booking without its status check.
ConfirmAnyStatus(db, booking_id) ==
    IF booking_id \notin DOMAIN db.bookings
    THEN [db |-> db, code |-> 404]
    ELSE LET unit_id == db.bookings[booking_id].unit_id
         IN  [db |-> [db EXCEPT
                        !.bookings[booking_id].status = "CONFIRMED",
                        !.units = IF unit_id \in DOMAIN @
                                  THEN [@ EXCEPT ![unit_id].status = "Booked"]
                                  ELSE @],
              code |-> 200]

\* confirm_booking refusing only a CANCELLED booking.
ConfirmRejectsOnlyCancelled(db, booking_id) ==
    IF booking_id \notin DOMAIN db.bookings
    THEN [db |-> db, code |-> 404]
    ELSE IF db.bookings[booking_id].status = "CANCELLED"
    THEN [db |-> db, code |-> 400]
    ELSE LET unit_id == db.bookings[booking_id].unit_id
         IN  [db |-> [db EXCEPT
                        !.bookings[booking_id].status = "CONFIRMED",
                        !.units = IF unit_id \in DOMAIN @
                                  THEN [@ EXCEPT ![unit_id].status = "Booked"]
                                  ELSE @],
              code |-> 200]

ConfirmBookingResult(db, booking_id) ==
    IF booking_id \notin DOMAIN db.bookings
    THEN [db |-> db, code |-> 404]
    ELSE IF db.bookings[booking_id].status # "PENDING"
    THEN [db |-> db, code |-> 400]
    ELSE LET unit_id == db.bookings[booking_id].unit_id
         IN  [db |-> [db EXCEPT
                        !.bookings[booking_id].status = "CONFIRMED",
                        !.units = IF unit_id \in DOMAIN @
                                  THEN [@ EXCEPT ![unit_id].status = "Booked"]
                                  ELSE @],
              code |-> 200]

confirm_booking(booking_id) ==
    /\ LET r == ConfirmBookingResult(Db, booking_id)
       IN  /\ SetDb(r.db)
           /\ resp' = Response("confirm_booking", r.code)
    /\ UNCHANGED inflight

\* cancel_booking freeing the unit only when the unit is linked to this booking.
CancelFreesOwnUnitOnly(db, booking_id) ==
    IF booking_id \notin DOMAIN db.bookings
    THEN [db |-> db, code |-> 404]
    ELSE LET unit_id == db.bookings[booking_id].unit_id
             lead_id == db.bookings[booking_id].lead_id
         IN  [db |-> [db EXCEPT
                        !.bookings[booking_id].status = "CANCELLED",
                        !.units = IF unit_id \in DOMAIN @ /\ @[unit_id].booking_id = booking_id
                                  THEN [@ EXCEPT ![unit_id] =
                                          [status |-> "Available", booking_id |-> NoId]]
                                  ELSE @,
                        !.leads = IF lead_id \in DOMAIN @
                                  THEN [@ EXCEPT ![lead_id].status = "NEGOTIATION"]
                                  ELSE @],
              code |-> 200]

\* The handler refusing a booking that is CANCELLED already.
CancelRejectsCancelled(db, booking_id) ==
    IF booking_id \notin DOMAIN db.bookings
    THEN [db |-> db, code |-> 404]
    ELSE IF db.bookings[booking_id].status = "CANCELLED"
    THEN [db |-> db, code |-> 400]
    ELSE [db |-> [db EXCEPT
                    !.bookings[booking_id].status = "CANCELLED",
                    !.units = IF db.bookings[booking_id].unit_id \in DOMAIN @
                              THEN [@ EXCEPT ![db.bookings[booking_id].unit_id] =
                                      [status |-> "Available", booking_id |-> NoId]]
                              ELSE @,
                    !.leads = IF db.bookings[booking_id].lead_id \in DOMAIN @
                              THEN [@ EXCEPT ![db.bookings[booking_id].lead_id].status =
                                      "NEGOTIATION"]
                              ELSE @],
          code |-> 200]

CancelBookingResult(db, booking_id) ==
    IF booking_id \notin DOMAIN db.bookings
    THEN [db |-> db, code |-> 404]
    ELSE LET unit_id == db.bookings[booking_id].unit_id
             lead_id == db.bookings[booking_id].lead_id
         IN  [db |-> [db EXCEPT
                        !.bookings[booking_id].status = "CANCELLED",
                        !.units = IF unit_id \in DOMAIN @
                                  THEN [@ EXCEPT ![unit_id] =
                                          [status |-> "Available", booking_id |-> NoId]]
                                  ELSE @,
                        !.leads = IF lead_id \in DOMAIN @
                                  THEN [@ EXCEPT ![lead_id].status = "NEGOTIATION"]
                                  ELSE @],
              code |-> 200]

cancel_booking(booking_id) ==
    /\ LET r == CancelBookingResult(Db, booking_id)
       IN  /\ SetDb(r.db)
           /\ resp' = Response("cancel_booking", r.code)
    /\ UNCHANGED inflight

(***************************************************************************)
(* record_payment                                                          *)
(***************************************************************************)
\* The payment_date strings of the model: none given, an ISO date, and a date
\* datetime.fromisoformat refuses.
NoDate == "none"
IsoDate == "2026-01-15"
BadDate == "15/01/2026"

\* datetime.fromisoformat(d) raises ValueError.
FromIsoFormatRaises(d) == d \notin {IsoDate}

\* datetime.fromisoformat(d) if d else datetime.now()
PaymentDate(d) == IF d # NoDate THEN d ELSE "now"

\* The rows the lookup by booking id and milestone matches; .first() returns
\* one of them, in no stated order.
MatchingRows(tbl, booking_id, milestone) ==
    {i \in DOMAIN tbl : tbl[i].booking_id = booking_id /\ tbl[i].milestone = milestone}

\* The ad hoc row left Pending (status not set in the constructor).
AdHocRowDefaultStatus(p) ==
    [booking_id |-> p.booking_id, milestone |-> p.milestone,
     amount |-> IF Truthy(p.amount) THEN Rupees(p.amount) ELSE 0,
     payer |-> p.payer, status |-> "Pending", payment_ref |-> p.payment_ref,
     payment_date |-> PaymentDate(p.payment_date)]

\* The ad hoc row of a payment with no schedule row.
AdHocRow(p) ==
    [booking_id |-> p.booking_id, milestone |-> p.milestone,
     amount |-> IF Truthy(p.amount) THEN Rupees(p.amount) ELSE 0,
     payer |-> p.payer, status |-> "Paid", payment_ref |-> p.payment_ref,
     payment_date |-> PaymentDate(p.payment_date)]

\* The update of the row found.
PaidRow(row, p) ==
    [row EXCEPT !.status = "Paid",
                !.payment_date = PaymentDate(p.payment_date),
                !.payment_ref = p.payment_ref,
                !.amount = IF Truthy(p.amount) THEN Rupees(p.amount) ELSE @]

\* The handler without its lookup: it inserts a row every time.
RecordPaymentAlwaysInserts(db, p) ==
    IF p.payment_date # NoDate /\ FromIsoFormatRaises(p.payment_date)
    THEN {[db |-> db, code |-> 500]}
    ELSE IF p.booking_id \notin DOMAIN db.bookings
         THEN {[db |-> db, code |-> 500]}
         ELSE {[db |-> [db EXCEPT !.schedules = Append(@, AdHocRow(p))],
                code |-> 200]}

\* The whole handler: every result it can have (one for each row .first()
\* may return).  The date is parsed in both branches; the INSERT is refused
\* when booking_id names no booking (foreign key); any exception rolls back
\* and answers 500.
RecordPaymentOutcomes(db, p) ==
    LET found == MatchingRows(db.schedules, p.booking_id, p.milestone)
    IN  IF p.payment_date # NoDate /\ FromIsoFormatRaises(p.payment_date)
        THEN {[db |-> db, code |-> 500]}
        ELSE IF found = {}
        THEN IF p.booking_id \notin DOMAIN db.bookings
             THEN {[db |-> db, code |-> 500]}
             ELSE {[db |-> [db EXCEPT !.schedules = Append(@, AdHocRow(p))],
                    code |-> 200]}
        ELSE {[db |-> [db EXCEPT !.schedules[i] = PaidRow(@, p)], code |-> 200] :
                 i \in found}

record_payment(p) ==
    /\ \E r \in RecordPaymentOutcomes(Db, p) :
          /\ SetDb(r.db)
          /\ resp' = Response("record_payment", r.code)
    /\ UNCHANGED inflight

\* record_payment in two steps, for requests that interleave.  Up to its
\* db.commit() the handler looks the row up and, finding one, assigns its
\* columns, finding none, builds the ad hoc row; nothing is sent before the
\* commit.  row: the index of the row found (NoId: none), as: the row as read.
RecordPaymentRead(db, p, i) ==
    [op |-> "record_payment", p |-> p, row |-> i,
     as |-> IF i = NoId THEN AdHocRow(p) ELSE db.schedules[i]]

\* db.commit() of a request that found no row: the INSERT, refused when
\* booking_id names no booking; of one that found a row: the UPDATE of the
\* columns whose assigned value differs from the one read (a payment_date of
\* now always does).
RecordPaymentCommit(db, r) ==
    IF r.row = NoId
    THEN IF r.p.booking_id \notin DOMAIN db.bookings
         THEN [db |-> db, code |-> 500]
         ELSE [db |-> [db EXCEPT !.schedules = Append(@, AdHocRow(r.p))], code |-> 200]
    ELSE [db |-> [db EXCEPT !.schedules[r.row] =
                     [@ EXCEPT
                        !.status = Written(@, r.as.status, "Paid"),
                        !.payment_date =
                            IF r.p.payment_date = NoDate THEN "now"
                            ELSE Written(@, r.as.payment_date, r.p.payment_date),
                        !.payment_ref = Written(@, r.as.payment_ref, r.p.payment_ref),
                        !.amount = IF Truthy(r.p.amount)
                                   THEN Written(@, r.as.amount, Rupees(r.p.amount))
                                   ELSE @]],
          code |-> 200]

\* The handler up to its db.commit(), on worker w: a payment_date that does
\* not parse is answered 500 at once; else the worker holds what it found.
record_payment_read(w, p) ==
    /\ inflight[w] = Idle
    /\ IF p.payment_date # NoDate /\ FromIsoFormatRaises(p.payment_date)
       THEN /\ resp' = Response("record_payment", 500)
            /\ UNCHANGED inflight
       ELSE /\ \E i \in IF MatchingRows(schedules, p.booking_id, p.milestone) = {}
                       THEN {NoId}
                       ELSE MatchingRows(schedules, p.booking_id, p.milestone) :
                  inflight' = [inflight EXCEPT ![w] = RecordPaymentRead(Db, p, i)]
            /\ UNCHANGED resp
    /\ UNCHANGED <<users, leads, units, bookings, schedules, documents, interactions>>

\* The handler's db.commit() on worker w, and its answer.
record_payment_commit(w) ==
    /\ inflight[w] # Idle
    /\ inflight[w].op = "record_payment"
    /\ LET r == RecordPaymentCommit(Db, inflight[w])
       IN  /\ SetDb(r.db)
           /\ resp' = Response("record_payment", r.code)
    /\ inflight' = [inflight EXCEPT ![w] = Idle]

(***************************************************************************)
(* mark_payment_paid                                                       *)
(***************************************************************************)
\* The handler without its status check: a Paid row is stamped again.
MarkPaymentPaidAgain(db, booking_id, milestone, payment_ref) ==
    LET found == MatchingRows(db.schedules, booking_id, milestone)
    IN  IF found = {}
        THEN {[db |-> db, code |-> 404]}
        ELSE {[db |-> [db EXCEPT !.schedules[i] =
                          [@ EXCEPT !.status = "Paid", !.payment_date = "now",
                                    !.payment_ref = payment_ref]],
               code |-> 200] : i \in found}

\* The whole handler: every result it can have (one for each row .first()
\* may return).  No row: 404; the row Paid: 400; else the row is stamped.
MarkPaymentPaidOutcomes(db, booking_id, milestone, payment_ref) ==
    LET found == MatchingRows(db.schedules, booking_id, milestone)
    IN  IF found = {}
        THEN {[db |-> db, code |-> 404]}
        ELSE {IF db.schedules[i].status = "Paid"
              THEN [db |-> db, code |-> 400]
              ELSE [db |-> [db EXCEPT !.schedules[i] =
                               [@ EXCEPT !.status = "Paid", !.payment_date = "now",
                                         !.payment_ref = payment_ref]],
                    code |-> 200] : i \in found}

mark_payment_paid(booking_id, milestone, payment_ref) ==
    /\ \E r \in MarkPaymentPaidOutcomes(Db, booking_id, milestone, payment_ref) :
          /\ SetDb(r.db)
          /\ resp' = Response("mark_payment_paid", r.code)
    /\ UNCHANGED inflight

(***************************************************************************)
(* format_amount                                                           *)
(***************************************************************************)
Crore == 10000000
Lakh == 100000

\* The integer nearest to n / d; when n / d lies midway between two, the
\* upper one if tie_up.
Nearest(n, d, tie_up) ==
    IF 2 * (n % d) > d \/ (2 * (n % d) = d /\ tie_up)
    THEN (n \div d) + 1
    ELSE n \div d

\* Rounding of a value that is exactly midway: to the even neighbour.
RoundHalfEven(n, d) == Nearest(n, d, (n \div d) % 2 = 1)

\* Two and three digits, zero-filled.
Pad2(n) == IF n < 10 THEN "0" \o ToString(n) ELSE ToString(n)
Pad3(n) == IF n < 100 THEN "0" \o Pad2(n) ELSE ToString(n)

\* ":.2f" of a number of hundredths q.
Fixed2(q) == ToString(q \div 100) \o "." \o Pad2(q % 100)

RECURSIVE Grouped(_)
\* ":,.0f" of a whole number n: its digits in groups of three.
Grouped(n) ==
    IF n < 1000 THEN ToString(n)
    ELSE Grouped(n \div 1000) \o "," \o Pad3(n % 1000)

\* The function with its comparisons strict.
FormatAmountAboveOnly(amount, tie_up) ==
    IF amount > Rupees(Crore)
    THEN "₹" \o Fixed2(Nearest(amount, Crore, tie_up)) \o " Cr"
    ELSE IF amount > Rupees(Lakh)
    THEN "₹" \o Fixed2(Nearest(amount, Lakh, tie_up)) \o " L"
    ELSE "₹" \o Grouped(RoundHalfEven(amount, 100))

\* format_amount of a non-negative amount given in hundredths of a rupee.
\* The quotient amount/10000000 or amount/100000 is a binary float: where
\* the exact quotient is midway between two values of two decimals, the
\* float lies on either side of it (tie_up: above).  ":,.0f" formats the
\* amount itself, where a half is exact and goes to the even neighbour.
format_amount(amount, tie_up) ==
    IF amount >= Rupees(Crore)
    THEN "₹" \o Fixed2(Nearest(amount, Crore, tie_up)) \o " Cr"
    ELSE IF amount >= Rupees(Lakh)
    THEN "₹" \o Fixed2(Nearest(amount, Lakh, tie_up)) \o " L"
    ELSE "₹" \o Grouped(RoundHalfEven(amount, 100))

\* A read formats an amount it has computed into its answer.
formatted_amount(w, tie_up) ==
    /\ inflight[w].op = "format_amount"
    /\ resp' = [op |-> "format_amount", amount |-> inflight[w].amount,
                text |-> format_amount(inflight[w].amount, tie_up)]
    /\ inflight' = [inflight EXCEPT ![w] = Idle]
    /\ UNCHANGED <<users, leads, units, bookings, schedules, documents, interactions>>

(***************************************************************************)
(* The reads of the ledger                                                 *)
(***************************************************************************)
RECURSIVE SumAmounts(_, _)
\* sum(s.amount for s in the rows of index set rows)
SumAmounts(tbl, rows) ==
    IF rows = {} THEN 0
    ELSE LET i == CHOOSE j \in rows : TRUE
         IN  tbl[i].amount + SumAmounts(tbl, rows \ {i})

\* The rows of a booking, and those of them that are Paid.
RowsOf(tbl, booking_id) == {i \in DOMAIN tbl : tbl[i].booking_id = booking_id}
PaidRowsOf(tbl, booking_id) == {i \in RowsOf(tbl, booking_id) : tbl[i].status = "Paid"}

\* "Ledger Active" if pending_amount > 0 else "Ledger Closed"
LedgerStatus(pending_amount) ==
    IF pending_amount > 0 THEN "Ledger Active" ELSE "Ledger Closed"

\* The answer of a read: its status code and the ledger status of its body
\* ("none" when the body carries none).
ReadResponse(op, booking_id, r) ==
    [op |-> op, booking_id |-> booking_id, code |-> r.code, status |-> r.status]

\* get_ledger_status: no lookup of the booking; without rows "No Schedule".
GetLedgerStatusResult(db, booking_id) ==
    IF RowsOf(db.schedules, booking_id) = {}
    THEN [code |-> 200, status |-> "No Schedule"]
    ELSE [code |-> 200,
          status |-> LedgerStatus(SumAmounts(db.schedules, RowsOf(db.schedules, booking_id))
                                  - SumAmounts(db.schedules, PaidRowsOf(db.schedules, booking_id)))]

get_ledger_status(booking_id) ==
    /\ resp' = ReadResponse("get_ledger_status", booking_id,
                            GetLedgerStatusResult(Db, booking_id))
    /\ UNCHANGED <<users, leads, units, bookings, schedules, documents, interactions, inflight>>

\* get_payment_schedule: 404 without the booking; without rows a summary
\* that carries no ledger_status.
GetPaymentScheduleResult(db, booking_id) ==
    IF booking_id \notin DOMAIN db.bookings
    THEN [code |-> 404, status |-> "none"]
    ELSE IF RowsOf(db.schedules, booking_id) = {}
    THEN [code |-> 200, status |-> "none"]
    ELSE [code |-> 200,
          status |-> LedgerStatus(SumAmounts(db.schedules, RowsOf(db.schedules, booking_id))
                                  - SumAmounts(db.schedules, PaidRowsOf(db.schedules, booking_id)))]

get_payment_schedule(booking_id) ==
    /\ resp' = ReadResponse("get_payment_schedule", booking_id,
                            GetPaymentScheduleResult(Db, booking_id))
    /\ UNCHANGED <<users, leads, units, bookings, schedules, documents, interactions, inflight>>

\* get_finance_summary: 404 without the booking; the total is the booking's
\* deal_amount, not the sum of its rows.
GetFinanceSummaryResult(db, booking_id) ==
    IF booking_id \notin DOMAIN db.bookings
    THEN [code |-> 404, status |-> "none"]
    ELSE [code |-> 200,
          status |-> LedgerStatus(Rupees(db.bookings[booking_id].deal_amount)
                                  - SumAmounts(db.schedules, PaidRowsOf(db.schedules, booking_id)))]

get_finance_summary(booking_id) ==
    /\ resp' = ReadResponse("get_finance_summary", booking_id,
                            GetFinanceSummaryResult(Db, booking_id))
    /\ UNCHANGED <<users, leads, units, bookings, schedules, documents, interactions, inflight>>

(***************************************************************************)
(* create_interaction                                                      *)
(***************************************************************************)
\* The whole handler.  The follow-up date is parsed while the row is built;
\* the INSERT is refused when lead_id names no lead (foreign key); the row is
\* committed; then the lead is stamped and committed a second time.  No
\* exception is caught: any of them answers 500 with what was committed
\* before it.  fail1, fail2: the database raises at the first, second commit.
CreateInteractionResult(db, i, fail1, fail2) ==
    IF i.next_followup_date # NoDate /\ FromIsoFormatRaises(i.next_followup_date)
    THEN [db |-> db, code |-> 500]
    ELSE IF i.lead_id \notin DOMAIN db.leads \/ fail1
    THEN [db |-> db, code |-> 500]
    ELSE LET first == [db EXCEPT !.interactions =
                          Append(@, [lead_id |-> i.lead_id, type |-> i.type,
                                     next_followup_date |-> i.next_followup_date])]
         IN  IF fail2
             THEN [db |-> first, code |-> 500]
             ELSE [db |-> [first EXCEPT
                             !.leads[i.lead_id].last_contact = "now",
                             !.leads[i.lead_id].next_followup =
                                 IF i.next_followup_date # NoDate
                                 THEN i.next_followup_date ELSE @],
                   code |-> 200]

create_interaction(i, fail1, fail2) ==
    /\ LET r == CreateInteractionResult(Db, i, fail1, fail2)
       IN  /\ SetDb(r.db)
           /\ resp' = Response("create_interaction", r.code)
    /\ UNCHANGED inflight

(***************************************************************************)
(* create_visit                                                            *)
(***************************************************************************)
\* The whole handler.  The follow-up date is parsed while the row is built;
\* the INSERT is refused when lead_id names no lead (foreign key); the row,
\* of type Visit whatever the request's type, is committed.  The lead is not
\* read.  dbfail: the database raises at the commit.
CreateVisitResult(db, i, dbfail) ==
    IF i.next_followup_date # NoDate /\ FromIsoFormatRaises(i.next_followup_date)
    THEN [db |-> db, code |-> 500]
    ELSE IF i.lead_id \notin DOMAIN db.leads \/ dbfail
    THEN [db |-> db, code |-> 500]
    ELSE [db |-> [db EXCEPT !.interactions =
                     Append(@, [lead_id |-> i.lead_id, type |-> "Visit",
                                next_followup_date |-> i.next_followup_date])],
          code |-> 200]

create_visit(i, dbfail) ==
    /\ LET r == CreateVisitResult(Db, i, dbfail)
       IN  /\ SetDb(r.db)
           /\ resp' = Response("create_visit", r.code)
    /\ UNCHANGED inflight

(***************************************************************************)
(* create_lead, update_lead_status                                         *)
(***************************************************************************)
\* The width of the phone column, String(15): a longer value is refused.
PhoneColumnWidth == 15

LeadsWithPhone(tbl, phone) == {i \in DOMAIN tbl : tbl[i].phone = phone}

\* The row create_lead builds: status NEW, the owner as given.
LeadRow(l) ==
    [phone |-> l.phone, status |-> "NEW", owner_id |-> l.owner_id,
     next_followup |-> "none", last_contact |-> "none"]

\* The handler without its lookup of the phone.
CreateLeadNoPhoneCheck(db, l) ==
    IF Len(l.phone) > PhoneColumnWidth
       \/ (l.owner_id # NoId /\ l.owner_id \notin DOMAIN db.users)
    THEN [db |-> db, code |-> 500]
    ELSE [db |-> [db EXCEPT !.leads = Append(@, LeadRow(l))], code |-> 200]

\* The whole handler: 400 when a lead has the phone; the INSERT is refused
\* (an exception nobody catches: 500, nothing committed) when the phone does
\* not fit its column or owner_id names no user (foreign key).
CreateLeadResult(db, l) ==
    IF LeadsWithPhone(db.leads, l.phone) # {}
    THEN [db |-> db, code |-> 400]
    ELSE IF Len(l.phone) > PhoneColumnWidth
            \/ (l.owner_id # NoId /\ l.owner_id \notin DOMAIN db.users)
    THEN [db |-> db, code |-> 500]
    ELSE [db |-> [db EXCEPT !.leads = Append(@, LeadRow(l))], code |-> 200]

create_lead(l) ==
    /\ LET r == CreateLeadResult(Db, l)
       IN  /\ SetDb(r.db)
           /\ resp' = Response("create_lead", r.code)
    /\ UNCHANGED inflight

\* create_lead in two steps, for requests that interleave: the lookup of the
\* phone, answered 400 at once when a lead has it, and the commit that sends
\* the INSERT, refused as in the whole handler.
CreateLeadRead(l) == [op |-> "create_lead", l |-> l]

CreateLeadCommit(db, r) ==
    IF Len(r.l.phone) > PhoneColumnWidth
       \/ (r.l.owner_id # NoId /\ r.l.owner_id \notin DOMAIN db.users)
    THEN [db |-> db, code |-> 500]
    ELSE [db |-> [db EXCEPT !.leads = Append(@, LeadRow(r.l))], code |-> 200]

create_lead_read(w, l) ==
    /\ inflight[w] = Idle
    /\ IF LeadsWithPhone(leads, l.phone) # {}
       THEN /\ resp' = Response("create_lead", 400)
            /\ UNCHANGED inflight
       ELSE /\ inflight' = [inflight EXCEPT ![w] = CreateLeadRead(l)]
            /\ UNCHANGED resp
    /\ UNCHANGED <<users, leads, units, bookings, schedules, documents, interactions>>

create_lead_commit(w) ==
    /\ inflight[w] # Idle
    /\ inflight[w].op = "create_lead"
    /\ LET r == CreateLeadCommit(Db, inflight[w])
       IN  /\ SetDb(r.db)
           /\ resp' = Response("create_lead", r.code)
    /\ inflight' = [inflight EXCEPT ![w] = Idle]

\* The whole handler: 404 without the lead; else the status is set, the lead
\* stamped, and its follow-up cleared when the status is BOOKED.
UpdateLeadStatusResult(db, lead_id, status) ==
    IF lead_id \notin DOMAIN db.leads
    THEN [db |-> db, code |-> 404]
    ELSE [db |-> [db EXCEPT !.leads[lead_id] =
                     [@ EXCEPT !.status = status, !.last_contact = "now",
                               !.next_followup = IF status = "BOOKED" THEN "none" ELSE @]],
          code |-> 200]

update_lead_status(lead_id, status) ==
    /\ LET r == UpdateLeadStatusResult(Db, lead_id, status)
       IN  /\ SetDb(r.db)
           /\ resp' = Response("update_lead_status", r.code)
    /\ UNCHANGED inflight

(***************************************************************************)
(* assign_lead                                                             *)
(***************************************************************************)
\* The capacity check one short: a user at capacity passes.
AssignLeadCheckOffByOne(db, lead_id, user_id) ==
    IF lead_id \notin DOMAIN db.leads THEN 404
    ELSE IF user_id \notin DOMAIN db.users THEN 404
    ELSE IF db.users[user_id].active_leads_count > db.users[user_id].capacity THEN 400
    ELSE 200

\* The lookups and the capacity check: the status the handler answers with
\* (200: it goes on to write).
AssignLeadCheck(db, lead_id, user_id) ==
    IF lead_id \notin DOMAIN db.leads THEN 404
    ELSE IF user_id \notin DOMAIN db.users THEN 404
    ELSE IF db.users[user_id].active_leads_count >= db.users[user_id].capacity THEN 400
    ELSE 200

\* The rows the session loaded.
AssignLeadRead(db, lead_id, user_id) ==
    [op |-> "assign_lead", lead_id |-> lead_id, user_id |-> user_id,
     lead |-> db.leads[lead_id],
     count |-> db.users[user_id].active_leads_count]

\* A commit that increments the counter in the database (SET c = c + 1).
AssignLeadCommitSqlIncrement(db, r) ==
    [db EXCEPT
        !.leads[r.lead_id].owner_id = Written(@, r.lead.owner_id, r.user_id),
        !.leads[r.lead_id].status = Written(@, r.lead.status, "IN_PROGRESS"),
        !.leads[r.lead_id].last_contact = "now",
        !.users[r.user_id].active_leads_count = @ + 1]

\* db.commit(): the lead's changed columns, and the counter set to the value
\* the session computed from what it had read (user.active_leads_count += 1).
AssignLeadCommit(db, r) ==
    [db EXCEPT
        !.leads[r.lead_id].owner_id = Written(@, r.lead.owner_id, r.user_id),
        !.leads[r.lead_id].status = Written(@, r.lead.status, "IN_PROGRESS"),
        !.leads[r.lead_id].last_contact = "now",
        !.users[r.user_id].active_leads_count = r.count + 1]

\* The whole handler, served without another request in between.
assign_lead(lead_id, user_id) ==
    /\ LET code == AssignLeadCheck(Db, lead_id, user_id)
       IN  /\ SetDb(IF code = 200
                    THEN AssignLeadCommit(Db, AssignLeadRead(Db, lead_id, user_id))
                    ELSE Db)
           /\ resp' = Response("assign_lead", code)
    /\ UNCHANGED inflight

\* The handler up to its db.commit(), on worker w: it answers an error at
\* once, or holds what it read.
assign_lead_read(w, lead_id, user_id) ==
    /\ inflight[w] = Idle
    /\ LET code == AssignLeadCheck(Db, lead_id, user_id)
       IN  IF code = 200
           THEN /\ inflight' = [inflight EXCEPT ![w] = AssignLeadRead(Db, lead_id, user_id)]
                /\ UNCHANGED resp
           ELSE /\ resp' = Response("assign_lead", code)
                /\ UNCHANGED inflight
    /\ UNCHANGED <<users, leads, units, bookings, schedules, documents, interactions>>

\* The handler's db.commit() on worker w, and its answer.
assign_lead_commit(w) ==
    /\ inflight[w] # Idle
    /\ inflight[w].op = "assign_lead"
    /\ SetDb(AssignLeadCommit(Db, inflight[w]))
    /\ inflight' = [inflight EXCEPT ![w] = Idle]
    /\ resp' = Response("assign_lead", 200)

(***************************************************************************)
(* The booking workflow: bookings are created, confirmed and cancelled,    *)
(* each request served whole.                                              *)
(***************************************************************************)
\* Ids a request may name: the rows of the table and one id that names none.
UnitArgs == 1 .. 3
LeadArgs == 1 .. 2
BookingArgs == 1 .. MaxBookings + 1

NewLead(phone) ==
    [phone |-> phone, status |-> "NEW", owner_id |-> NoId,
     next_followup |-> "none", last_contact |-> "none"]

\* The user add_default_data seeds.
AdminUser == [active_leads_count |-> 0, capacity |-> 50]

\* The seeded inventory, no booking yet, no request being served.
InitStore ==
    /\ units = [u \in 1 .. 2 |-> [status |-> "Available", booking_id |-> NoId]]
    /\ bookings = <<>>
    /\ schedules = <<>>
    /\ documents = <<>>
    /\ interactions = <<>>
    /\ inflight = [s \in 1 .. MaxInFlight |-> Idle]
    /\ resp = Response("none", 0)

InitWorkflow ==
    /\ InitStore
    /\ users = <<AdminUser>>
    /\ leads = <<NewLead("p1")>>

WorkflowBookings ==
    [lead_id : LeadArgs, unit_id : UnitArgs, deal_amount : {1000},
     booking_amount : {None}]

NextWorkflow ==
    \/ /\ Len(bookings) < MaxBookings
       /\ \E b \in WorkflowBookings, dbfail \in BOOLEAN : create_booking(b, dbfail)
    \/ \E id \in BookingArgs : confirm_booking(id)
    \/ \E id \in BookingArgs : cancel_booking(id)

SpecWorkflow == InitWorkflow /\ [][NextWorkflow]_vars

(***************************************************************************)
(* The schedule template: bookings of several deal amounts, with and       *)
(* without a booking amount, are created.                                  *)
(***************************************************************************)
TemplateBookings ==
    [lead_id : {1}, unit_id : {1, 2}, deal_amount : {1000, 2500},
     booking_amount : {None, 0, 300}]

NextTemplate ==
    /\ Len(bookings) < MaxBookings
    /\ \E b \in TemplateBookings, dbfail \in BOOLEAN : create_booking(b, dbfail)

SpecTemplate == InitWorkflow /\ [][NextTemplate]_vars

(***************************************************************************)
(* Lead assignment: users of some capacity, part of it used, and leads to  *)
(* assign.  In SpecAssign each request is served whole; in SpecAssignRace  *)
(* the requests of MaxInFlight workers interleave between their reads and  *)
(* their commits.                                                          *)
(***************************************************************************)
UserArgs == 1 .. 3
Workers == 1 .. MaxInFlight

InitAssign ==
    /\ InitStore
    /\ \E cap \in [1 .. 2 -> 1 .. MaxCapacity] :
          \E cnt \in [1 .. 2 -> 0 .. MaxCapacity] :
              /\ \A u \in 1 .. 2 : cnt[u] <= cap[u]
              /\ users = [u \in 1 .. 2 |->
                              [active_leads_count |-> cnt[u], capacity |-> cap[u]]]
    /\ leads = <<NewLead("p1"), NewLead("p2")>>

NextAssign ==
    \E l \in LeadArgs \cup {3}, u \in UserArgs : assign_lead(l, u)

SpecAssign == InitAssign /\ [][NextAssign]_vars

NextAssignRace ==
    \/ \E w \in Workers, l \in LeadArgs \cup {3}, u \in UserArgs : assign_lead_read(w, l, u)
    \/ \E w \in Workers : assign_lead_commit(w)

SpecAssignRace == InitAssign /\ [][NextAssignRace]_vars

(***************************************************************************)
(* The payment ledger: bookings are created and payments recorded against  *)
(* their schedules, each request served whole.                             *)
(***************************************************************************)
LedgerBookings ==
    [lead_id : {1}, unit_id : {1}, deal_amount : {1000}, booking_amount : {None, 300}]

\* A template milestone and one no template has.
PaymentMilestones == {"Booking Token", "Registration"}

\* A payment comes with no reference and no date, or with a cheque's number
\* and its date, well or badly written.
PaymentStamps ==
    {[payment_ref |-> "none", payment_date |-> NoDate],
     [payment_ref |-> "CHQ-1", payment_date |-> IsoDate],
     [payment_ref |-> "CHQ-1", payment_date |-> BadDate]}

PaymentRequests ==
    {[booking_id |-> b, milestone |-> m, amount |-> a, payer |-> py,
      payment_ref |-> st.payment_ref, payment_date |-> st.payment_date] :
        b \in 1 .. MaxLedgerBookings + 1, m \in PaymentMilestones,
        a \in {None, 0, 300}, py \in {"Customer", "Bank Loan"}, st \in PaymentStamps}

NextLedger ==
    \/ /\ Len(bookings) < MaxLedgerBookings
       /\ \E b \in LedgerBookings : create_booking(b, FALSE)
    \/ \E p \in PaymentRequests : record_payment(p)

SpecLedger == InitWorkflow /\ [][NextLedger]_vars

(***************************************************************************)
(* Requests that commit more than once, and the failures they can meet:    *)
(* bookings with a cheque upload, interactions and payments, each request  *)
(* served whole.                                                           *)
(***************************************************************************)
MaxInteractions == 2

UploadForms ==
    {[json |-> "malformed", payload |-> b] : b \in {[lead_id |-> 1, unit_id |-> 1,
                                                     deal_amount |-> 1000,
                                                     booking_amount |-> None]}}
    \cup {[json |-> "object", payload |-> b] :
             b \in [lead_id : LeadArgs, unit_id : {1}, deal_amount : {1000},
                    booking_amount : {None}]}

ChequeFiles == {NoFile, "cheque.png", "scans/cheque.png"}

InteractionRequests ==
    [lead_id : LeadArgs, type : {"Note"}, next_followup_date : {NoDate, IsoDate, BadDate}]

\* Payments of a milestone no template has, dated well or badly.
UploadPayments ==
    {[booking_id |-> b, milestone |-> "Registration", amount |-> 300, payer |-> "Customer",
      payment_ref |-> "CHQ-1", payment_date |-> d] :
        b \in {1, MaxBookings + 1}, d \in {IsoDate, BadDate}}

NextUpload ==
    \/ /\ Len(bookings) < MaxBookings
       /\ \E f \in UploadForms, c \in ChequeFiles, dbfail \in BOOLEAN, docfail \in BOOLEAN :
             create_booking_with_upload(f, c, dbfail, docfail)
    \/ /\ Len(interactions) < MaxInteractions
       /\ \E i \in InteractionRequests, fail1 \in BOOLEAN, fail2 \in BOOLEAN :
             create_interaction(i, fail1, fail2)
    \/ \E p \in UploadPayments : record_payment(p)

SpecUpload == InitWorkflow /\ [][NextUpload]_vars

(***************************************************************************)
(* The leads: leads are created, with a phone stored or not, and their     *)
(* status edited, each request served whole.                               *)
(***************************************************************************)
MaxLeads == 3

\* The phone of the stored lead, two others, and one wider than the column;
\* no owner, the stored user, or a user id that names none.
LeadRequests ==
    [phone : {"p1", "p2", "9876543210", "+91 98765 43210 ext. 12"},
     owner_id : {NoId, 1, 2}]

NextLeads ==
    \/ /\ Len(leads) < MaxLeads
       /\ \E l \in LeadRequests : create_lead(l)
    \/ \E id \in 1 .. MaxLeads + 1, st \in {"LOST"} : update_lead_status(id, st)

SpecLeads == InitWorkflow /\ [][NextLeads]_vars

(***************************************************************************)
(* Amounts to format: a read holds an amount and formats it.               *)
(***************************************************************************)
\* Amounts around every power of ten up to a crore, whole and with paise
\* below and at the half, and amounts whose quotient is midway.
AmountSamples ==
    {Rupees(d * 10^x + by) + paise :
        d \in 1 .. 9, x \in 0 .. 6, by \in {-1, 0, 1}, paise \in {0, 49, 50}}
    \cup {Rupees(r) : r \in {Crore - 1, Crore, Crore + 1, 12345678, 2 * Crore,
                              250000, 102500, 107500, 15250000}}
    \cup {Rupees(Crore) - 1, Rupees(Lakh) - 1}

InitFormat ==
    /\ users = <<AdminUser>>
    /\ leads = <<>>
    /\ units = <<>>
    /\ bookings = <<>>
    /\ schedules = <<>>
    /\ documents = <<>>
    /\ interactions = <<>>
    /\ \E a \in AmountSamples :
          inflight = [w \in Workers |->
                         IF w = 1 THEN [op |-> "format_amount", amount |-> a] ELSE Idle]
    /\ resp = Response("none", 0)

NextFormat == \E w \in Workers, tie_up \in BOOLEAN : formatted_amount(w, tie_up)

SpecFormat == InitFormat /\ [][NextFormat]_vars

(***************************************************************************)
(* Bookings that race: the create_booking requests of MaxInFlight workers  *)
(* interleave between their flush and their commit, on a store where unit  *)
(* 1 is Available, Blocked by a PENDING booking or Booked by a CONFIRMED   *)
(* one.                                                                    *)
(***************************************************************************)
FreshDb ==
    [users |-> <<AdminUser>>, leads |-> <<NewLead("p1")>>,
     units |-> [u \in 1 .. 2 |-> [status |-> "Available", booking_id |-> NoId]],
     bookings |-> <<>>, schedules |-> <<>>, documents |-> <<>>, interactions |-> <<>>]

RaceBookings ==
    [lead_id : LeadArgs, unit_id : {1, 2}, deal_amount : {1000}, booking_amount : {None}]

\* The store after a booking of unit 1, and after its confirmation.
BlockedDb ==
    CreateBookingResult(FreshDb, [lead_id |-> 1, unit_id |-> 1, deal_amount |-> 1000,
                                  booking_amount |-> None], FALSE).db
BookedDb == ConfirmBookingResult(BlockedDb, 1).db

InitBookingRace ==
    /\ \E db \in {FreshDb, BlockedDb, BookedDb} :
          /\ users = db.users
          /\ leads = db.leads
          /\ units = db.units
          /\ bookings = db.bookings
          /\ schedules = db.schedules
          /\ documents = db.documents
          /\ interactions = db.interactions
    /\ inflight = [w \in Workers |-> Idle]
    /\ resp = Response("none", 0)

NextBookingRace ==
    \/ /\ Len(bookings) < MaxBookings
       /\ \E w \in Workers, b \in RaceBookings : create_booking_read(w, b)
    \/ \E w \in Workers, dbfail \in BOOLEAN : create_booking_commit(w, dbfail)

SpecBookingRace == InitBookingRace /\ [][NextBookingRace]_vars

(***************************************************************************)
(* Cancellations: the bookings of a lead are created, confirmed and        *)
(* cancelled, and the lead's status edited in between, each request served *)
(* whole.                                                                  *)
(***************************************************************************)
CancelBookings ==
    [lead_id : {1}, unit_id : {1}, deal_amount : {1000}, booking_amount : {None}]

NextCancel ==
    \/ /\ Len(bookings) < MaxBookings
       /\ \E b \in CancelBookings : create_booking(b, FALSE)
    \/ \E id \in BookingArgs : confirm_booking(id)
    \/ \E id \in BookingArgs : cancel_booking(id)
    \/ \E id \in LeadArgs, st \in {"LOST", "BOOKED"} : update_lead_status(id, st)

SpecCancel == InitWorkflow /\ [][NextCancel]_vars

(***************************************************************************)
(* Interactions: notes and visits are recorded for a lead, each request    *)
(* served whole.                                                           *)
(***************************************************************************)
\* Notes and visits, with no follow-up date, with one, with one badly written.
LeadInteractions ==
    [lead_id : LeadArgs, type : {"Note", "Visit"},
     next_followup_date : {NoDate, IsoDate, BadDate}]

NextInteractions ==
    \/ /\ Len(interactions) < MaxInteractions
       /\ \E i \in LeadInteractions, fail1 \in BOOLEAN, fail2 \in BOOLEAN :
             create_interaction(i, fail1, fail2)
    \/ /\ Len(interactions) < MaxInteractions
       /\ \E i \in LeadInteractions, dbfail \in BOOLEAN : create_visit(i, dbfail)
    \/ \E id \in LeadArgs : update_lead_status(id, "SITE_VISIT")

SpecInteractions == InitWorkflow /\ [][NextInteractions]_vars

(***************************************************************************)
(* Payments that race: bookings are created and rows marked paid, each     *)
(* request served whole, while the record_payment requests of MaxInFlight  *)
(* workers interleave between their lookup and their commit.               *)
(***************************************************************************)
RacePayments ==
    {[booking_id |-> b, milestone |-> m, amount |-> a, payer |-> "Customer",
      payment_ref |-> "CHQ-1", payment_date |-> d] :
        b \in 1 .. MaxLedgerBookings + 1, m \in PaymentMilestones,
        a \in {None, 300}, d \in {IsoDate, BadDate}}

NextPaymentRace ==
    \/ /\ Len(bookings) < MaxLedgerBookings
       /\ \E b \in CancelBookings : create_booking(b, FALSE)
    \/ \E id \in 1 .. MaxLedgerBookings + 1, m \in PaymentMilestones :
          mark_payment_paid(id, m, "none")
    \/ \E w \in Workers, p \in RacePayments : record_payment_read(w, p)
    \/ \E w \in Workers : record_payment_commit(w)

SpecPaymentRace == InitWorkflow /\ [][NextPaymentRace]_vars

(***************************************************************************)
(* Leads that race: the create_lead requests of MaxInFlight workers        *)
(* interleave between their lookup of the phone and their commit.          *)
(***************************************************************************)
NextLeadRace ==
    \/ /\ Len(leads) < MaxLeads
       /\ \E w \in Workers, l \in LeadRequests : create_lead_read(w, l)
    \/ \E w \in Workers : create_lead_commit(w)

SpecLeadRace == InitWorkflow /\ [][NextLeadRace]_vars

(***************************************************************************)
(* The schedule of a booking: its rows are marked paid one by one and the  *)
(* ledger is read in between, each request served whole.                   *)
(***************************************************************************)
\* Two template milestones and one no template has.
ScheduleMilestones == {"Agreement Signing", "Bank Disbursement", "Registration"}

\* The payment_ref query parameter of mark_payment_paid: absent or given.
PaymentRefs == {"none", "CHQ-1"}

LedgerArgs == 1 .. MaxLedgerBookings + 1

NextSchedule ==
    \/ /\ Len(bookings) < MaxLedgerBookings
       /\ \E b \in LedgerBookings : create_booking(b, FALSE)
    \/ \E id \in LedgerArgs, m \in ScheduleMilestones, ref \in PaymentRefs :
          mark_payment_paid(id, m, ref)
    \/ \E id \in LedgerArgs : get_ledger_status(id)
    \/ \E id \in LedgerArgs : get_payment_schedule(id)
    \/ \E id \in LedgerArgs : get_finance_summary(id)

SpecSchedule == InitWorkflow /\ [][NextSchedule]_vars

(***************************************************************************)
(* Properties of the booking workflow.                                     *)
(***************************************************************************)
ActiveBookingsOf(u) ==
    {i \in DOMAIN bookings :
        bookings[i].unit_id = u /\ bookings[i].status \in {"PENDING", "CONFIRMED"}}

\* C1: in every state each unit is referenced by at most one PENDING or
\* CONFIRMED booking and its status matches it: Blocked while that booking is
\* PENDING, Booked while it is CONFIRMED, Available when there is none.
C1_UnitReflectsOneActiveBooking ==
    \A u \in DOMAIN units :
        /\ Cardinality(ActiveBookingsOf(u)) <= 1
        /\ ActiveBookingsOf(u) = {} => units[u].status = "Available"
        /\ \A i \in ActiveBookingsOf(u) :
              units[u].status =
                  IF bookings[i].status = "PENDING" THEN "Blocked" ELSE "Booked"

SchedulesOf(tbl, id) == {i \in DOMAIN tbl : tbl[i].booking_id = id}

\* C2: create_booking is all-or-nothing.  A create_booking step that answers
\* 200 commits the booking row, the unit and lead updates and five schedule
\* rows together; one that answers an error leaves the store as it was; and
\* no state of the store holds a booking with fewer than five schedule rows.
C2_CreateBookingAllOrNothing ==
    [][ /\ \A id \in DOMAIN bookings' : Cardinality(SchedulesOf(schedules', id)) >= 5
        /\ \A b \in WorkflowBookings, dbfail \in BOOLEAN :
              create_booking(b, dbfail) =>
                  \/ /\ resp'.code = 200
                     /\ Len(bookings') = Len(bookings) + 1
                     /\ bookings'[Len(bookings')].status = "PENDING"
                     /\ Len(schedules') = Len(schedules) + 5
                     /\ b.unit_id \in DOMAIN units =>
                            units'[b.unit_id] =
                                [status |-> "Blocked", booking_id |-> Len(bookings')]
                     /\ leads'[b.lead_id].status = "BOOKED"
                  \/ /\ resp'.code = 500
                     /\ UNCHANGED <<users, leads, units, bookings, schedules, documents, interactions>>
      ]_vars

\* C2's case: a create_booking was refused while a committed booking exists.
C2_Witness ==
    /\ resp = Response("create_booking", 500)
    /\ Len(bookings) >= 1

\* What a successful create_booking(b) adds to the schedule table when the
\* five amounts are amounts(b).
AddsTemplateRows(b, amounts) ==
    /\ Len(schedules') = Len(schedules) + 5
    /\ SubSeq(schedules', 1, Len(schedules)) = schedules
    /\ \A k \in 1 .. 5 :
          LET row == schedules'[Len(schedules) + k]
          IN  /\ row.booking_id = Len(bookings')
              /\ row.milestone = Milestones[k]
              /\ row.amount = amounts[k]

\* C3 as stated: a successful create_booking adds exactly five rows for the
\* new booking, in the template's order, with amounts [booking_amount if given
\* else 10%, 25%, 10%, 60%, 5%] of the deal amount.
C3_TemplateAmountsIfGiven ==
    [][ \A b \in TemplateBookings, dbfail \in BOOLEAN :
            (create_booking(b, dbfail) /\ resp'.code = 200) =>
                AddsTemplateRows(b,
                    << IF b.booking_amount # None THEN Rupees(b.booking_amount)
                                                  ELSE b.deal_amount * 10,
                       b.deal_amount * 25, b.deal_amount * 10,
                       b.deal_amount * 60, b.deal_amount * 5 >>)
      ]_vars

\* C3 amended: the first amount is booking_amount when it is given and not
\* zero, and 10% of the deal amount otherwise (also for a booking_amount of 0).
C3_TemplateAmountsIfNonZero ==
    [][ \A b \in TemplateBookings, dbfail \in BOOLEAN :
            (create_booking(b, dbfail) /\ resp'.code = 200) =>
                AddsTemplateRows(b,
                    << IF b.booking_amount # None /\ b.booking_amount # 0
                       THEN Rupees(b.booking_amount)
                       ELSE b.deal_amount * 10,
                       b.deal_amount * 25, b.deal_amount * 10,
                       b.deal_amount * 60, b.deal_amount * 5 >>)
      ]_vars

\* C3's case: bookings were created with a booking amount, with a booking
\* amount of 0 and with none.
C3_Witness ==
    /\ resp = Response("create_booking", 200)
    /\ \E i, j, k \in DOMAIN bookings :
          /\ bookings[i].booking_amount = None
          /\ bookings[j].booking_amount = 0
          /\ bookings[k].booking_amount = 300

AllowedBookingStep(s, t) ==
    \/ s = t
    \/ <<s, t>> \in {<<"PENDING", "CONFIRMED">>, <<"PENDING", "CANCELLED">>,
                     <<"CONFIRMED", "CANCELLED">>}

\* C4: a booking's status changes only along PENDING -> CONFIRMED,
\* PENDING -> CANCELLED and CONFIRMED -> CANCELLED, and a new booking starts
\* PENDING.
C4_BookingStatusMachine ==
    [][ /\ \A i \in DOMAIN bookings :
              /\ i \in DOMAIN bookings'
              /\ AllowedBookingStep(bookings[i].status, bookings'[i].status)
        /\ \A i \in DOMAIN bookings' \ DOMAIN bookings :
              bookings'[i].status = "PENDING"
      ]_vars

\* C4's case: a confirm was refused while a CANCELLED booking exists beside a
\* CONFIRMED one.
C4_Witness ==
    /\ resp = Response("confirm_booking", 400)
    /\ \E i, j \in DOMAIN bookings :
          bookings[i].status = "CANCELLED" /\ bookings[j].status = "CONFIRMED"

\* C5: confirm_booking on a CONFIRMED or CANCELLED booking answers 400 and
\* changes neither the bookings nor the units.
C5_ConfirmNonPendingRejected ==
    [][ \A id \in DOMAIN bookings :
            (bookings[id].status # "PENDING" /\ confirm_booking(id)) =>
                /\ resp'.code = 400
                /\ UNCHANGED <<bookings, units>>
      ]_vars

\* C5's case: a confirm was refused and the only bookings are non-PENDING.
C5_Witness ==
    /\ resp = Response("confirm_booking", 400)
    /\ bookings # <<>>
    /\ \A i \in DOMAIN bookings : bookings[i].status # "PENDING"

\* C6: after a cancel_booking that answers 200, whatever the booking's status
\* was, the unit the booking references is Available with no booking link.
C6_CancelFreesUnit ==
    [][ \A id \in DOMAIN bookings :
            (cancel_booking(id) /\ resp'.code = 200) =>
                (bookings[id].unit_id \in DOMAIN units =>
                    units'[bookings[id].unit_id] =
                        [status |-> "Available", booking_id |-> NoId])
      ]_vars

\* C6's case: a cancel succeeded on a booking of a unit that another, still
\* CONFIRMED booking references too.
C6_Witness ==
    /\ resp = Response("cancel_booking", 200)
    /\ \E i, j \in DOMAIN bookings :
          /\ bookings[i].status = "CANCELLED"
          /\ bookings[j].status = "CONFIRMED"
          /\ bookings[i].unit_id = bookings[j].unit_id
          /\ bookings[i].unit_id \in DOMAIN units
          /\ units[bookings[i].unit_id].status = "Available"

(***************************************************************************)
(* Properties of lead assignment.                                          *)
(***************************************************************************)
\* C7: assign_lead to a user whose active_leads_count has reached capacity
\* fails, with 400 when the lead exists, and changes nothing: the leads
\* (owner, status, last_contact) and the users' counters stay as they were.
C7_AssignAtCapacityRejected ==
    [][ \A l \in LeadArgs \cup {3}, u \in DOMAIN users :
            (users[u].active_leads_count >= users[u].capacity /\ assign_lead(l, u)) =>
                /\ resp'.code \in {400, 404}
                /\ l \in DOMAIN leads => resp'.code = 400
                /\ UNCHANGED <<leads, users>>
      ]_vars

\* C7's case: an assignment was refused with 400 while a user is at capacity
\* through assignments (a lead is IN_PROGRESS with that owner).
C7_Witness ==
    /\ resp = Response("assign_lead", 400)
    /\ \E u \in DOMAIN users, l \in DOMAIN leads :
          /\ users[u].active_leads_count = users[u].capacity
          /\ leads[l].owner_id = u
          /\ leads[l].status = "IN_PROGRESS"

\* C8: in every state every user's active_leads_count is at most the user's
\* capacity, also when assign_lead requests interleave between reading the
\* counter and committing.
C8_CountWithinCapacity ==
    \A u \in DOMAIN users : users[u].active_leads_count <= users[u].capacity

\* C8's case: a request that passed the capacity check is still to commit
\* while another one, committed after its read, has filled the user's capacity.
C8_Witness ==
    \E w \in Workers :
        /\ inflight[w] # Idle
        /\ inflight[w].count < users[inflight[w].user_id].active_leads_count
        /\ users[inflight[w].user_id].active_leads_count =
               users[inflight[w].user_id].capacity

(***************************************************************************)
(* Properties of the payment ledger.                                       *)
(***************************************************************************)
\* What a record_payment(p) that inserts answers and leaves: 200, and one more
\* row, Paid, for p's booking and milestone, every other row as it was.
AddsOnePaidRow(r, p) ==
    /\ r.code = 200
    /\ Len(r.db.schedules) = Len(schedules) + 1
    /\ SubSeq(r.db.schedules, 1, Len(schedules)) = schedules
    /\ r.db.schedules[Len(schedules) + 1].booking_id = p.booking_id
    /\ r.db.schedules[Len(schedules) + 1].milestone = p.milestone
    /\ r.db.schedules[Len(schedules) + 1].status = "Paid"

StatusAndAmounts(tbl) ==
    [i \in DOMAIN tbl |->
        <<tbl[i].booking_id, tbl[i].milestone, tbl[i].status, tbl[i].amount>>]

\* C10: in every state, for every request, record_payment applied twice
\* leaves the same rows, with the same status and amounts, as applied once.
C10_RecordPaymentIdempotent ==
    \A p \in PaymentRequests :
        \A once \in RecordPaymentOutcomes(Db, p) :
            \A twice \in RecordPaymentOutcomes(once.db, p) :
                /\ twice.code = once.code
                /\ StatusAndAmounts(twice.db.schedules) = StatusAndAmounts(once.db.schedules)

\* C10's case: a first call has created a row ad hoc and changed a template
\* row, so that the same requests, applied again in this state, find those
\* rows: the table holds a Paid row outside the template beside a template row
\* whose amount a payment has overwritten.
C10_Witness ==
    /\ resp = Response("record_payment", 200)
    /\ \E i, j \in DOMAIN schedules :
          /\ schedules[i].booking_id = schedules[j].booking_id
          /\ schedules[i].milestone = "Registration"
          /\ schedules[i].amount = Rupees(300)
          /\ schedules[j].milestone = "Booking Token"
          /\ schedules[j].status = "Paid"
          /\ schedules[j].payment_ref = "CHQ-1"
          /\ bookings[schedules[j].booking_id].booking_amount = None
          /\ schedules[j].amount = Rupees(300)

\* C11: in every state, for every (booking id, milestone, reference),
\* mark_payment_paid answers 404 and changes nothing when no row matches,
\* answers 400 and changes nothing when the row is Paid, and on a Pending row
\* answers 200 and leaves the row Paid, dated and carrying the reference, its
\* amount and every other row as they were.
C11_MarkPaymentPaid ==
    \A id \in LedgerArgs, m \in ScheduleMilestones, ref \in PaymentRefs :
        LET found == MatchingRows(schedules, id, m)
        IN  \A r \in MarkPaymentPaidOutcomes(Db, id, m, ref) :
                IF found = {}
                THEN r.code = 404 /\ r.db = Db
                ELSE \E i \in found :
                        IF schedules[i].status = "Paid"
                        THEN r.code = 400 /\ r.db = Db
                        ELSE /\ schedules[i].status = "Pending"
                             /\ r.code = 200
                             /\ r.db.schedules =
                                    [schedules EXCEPT ![i] =
                                        [booking_id |-> id, milestone |-> m,
                                         amount |-> schedules[i].amount,
                                         payer |-> schedules[i].payer,
                                         status |-> "Paid", payment_ref |-> ref,
                                         payment_date |-> "now"]]
                             /\ r.db.bookings = bookings

\* C11's case: a Pending template row has been marked Paid with a reference,
\* keeping its template amount, and a second request for it was refused.
C11_Witness ==
    /\ resp = Response("mark_payment_paid", 400)
    /\ \E i \in DOMAIN schedules :
          /\ schedules[i].milestone = "Bank Disbursement"
          /\ schedules[i].status = "Paid"
          /\ schedules[i].payment_ref = "CHQ-1"
          /\ schedules[i].payment_date = "now"
          /\ schedules[i].amount = Percent(bookings[schedules[i].booking_id].deal_amount, 60)

\* The reads that report a ledger status.
LedgerReads == {"get_ledger_status", "get_payment_schedule", "get_finance_summary"}

\* C12: whenever the last answer is a read of an existing booking's ledger,
\* its status is "Ledger Closed" if the amounts of the booking's Paid rows sum
\* to the amounts of all its rows, and "Ledger Active" otherwise.
C12_LedgerStatusBySums ==
    (resp.op \in LedgerReads /\ resp.booking_id \in DOMAIN bookings) =>
        resp.status =
            IF SumAmounts(schedules, PaidRowsOf(schedules, resp.booking_id))
                 = SumAmounts(schedules, RowsOf(schedules, resp.booking_id))
            THEN "Ledger Closed"
            ELSE "Ledger Active"

(***************************************************************************)
(* Properties of the requests that commit more than once.                  *)
(***************************************************************************)
\* C13: every request that answers with an error (400 and above) leaves the
\* store as it was before the request.
C13_ErrorsChangeNothing ==
    [][resp'.code >= 400 => Db' = Db]_vars

\* C14: a create_booking_with_upload that adds a Document has added a booking
\* too, and the one row it adds is a Cheque carrying that booking's id; so
\* when the booking step fails no Document is added.
C14_ChequeOfCommittedBooking ==
    [][(resp'.op = "create_booking_with_upload" /\ documents' # documents) =>
          /\ Len(bookings') = Len(bookings) + 1
          /\ SubSeq(bookings', 1, Len(bookings)) = bookings
          /\ Len(documents') = Len(documents) + 1
          /\ SubSeq(documents', 1, Len(documents)) = documents
          /\ documents'[Len(documents')].booking_id = Len(bookings')
          /\ documents'[Len(documents')].type = "Cheque"
      ]_vars

\* C14's case: one upload's booking step failed (lead 2 is not stored) and
\* left no Document, another went through with its cheque: the second
\* booking has a Cheque, the first has none, and the last answer is a 500.
C14_Witness ==
    /\ resp = Response("create_booking_with_upload", 500)
    /\ Len(bookings) = 2
    /\ Len(documents) = 1
    /\ documents[1] = ChequeDocument(2, "cheque.png")

(***************************************************************************)
(* Properties of the leads.                                                *)
(***************************************************************************)
\* What create_lead(l) answers and leaves when it inserts: 200, and one more
\* lead, with l's phone, every other lead as it was.
AddsOneLead(r, l) ==
    /\ r.code = 200
    /\ Len(r.db.leads) = Len(leads) + 1
    /\ SubSeq(r.db.leads, 1, Len(leads)) = leads
    /\ r.db.leads[Len(leads) + 1].phone = l.phone

NotFound(r) == r.code = 404 /\ r.db = Db

\* C16: in every state, each operation given a lead, user, unit or booking
\* id that names no row answers 404 and changes nothing: assign_lead,
\* update_lead_status, create_booking (lead or unit), confirm_booking,
\* cancel_booking, record_payment (booking) and mark_payment_paid.
C16_MissingIdsAnswer404 ==
    /\ \A u \in DOMAIN users : AssignLeadCheck(Db, Len(leads) + 1, u) = 404
    /\ \A l \in DOMAIN leads : AssignLeadCheck(Db, l, Len(users) + 1) = 404
    /\ NotFound(UpdateLeadStatusResult(Db, Len(leads) + 1, "LOST"))
    /\ \A b \in WorkflowBookings :
          (b.lead_id \notin DOMAIN leads \/ b.unit_id \notin DOMAIN units)
              => NotFound(CreateBookingResult(Db, b, FALSE))
    /\ NotFound(ConfirmBookingResult(Db, Len(bookings) + 1))
    /\ NotFound(CancelBookingResult(Db, Len(bookings) + 1))
    /\ \A p \in PaymentRequests :
          \A r \in RecordPaymentOutcomes(Db, [p EXCEPT !.booking_id = Len(bookings) + 1]) :
              NotFound(r)
    /\ \A m \in ScheduleMilestones, ref \in PaymentRefs :
          \A r \in MarkPaymentPaidOutcomes(Db, Len(bookings) + 1, m, ref) : NotFound(r)

(***************************************************************************)
(* Properties of format_amount.                                            *)
(***************************************************************************)
\* n / d is within half a unit of q.
RoundsTo(n, d, q) == q * d - n <= d \div 2 /\ n - q * d <= d \div 2

\* C17: every formatted amount of a crore or more is the rupee sign, the
\* amount in crores to two decimals and " Cr"; of a lakh or more and less
\* than a crore, the rupee sign, the amount in lakhs to two decimals and
\* " L"; every smaller one the rupee sign and the amount as a whole number
\* in groups of three digits; and 12,345,678 gives "₹1.23 Cr", 250,000 gives
\* "₹2.50 L", 500 gives "₹500".
C17_FormatAmount ==
    resp.op = "format_amount" =>
        LET a == resp.amount
            text == resp.text
        IN  /\ a >= Rupees(Crore) =>
                   \E q \in {a \div Crore, (a \div Crore) + 1} :
                       RoundsTo(a, Crore, q) /\ text = "₹" \o Fixed2(q) \o " Cr"
            /\ (a >= Rupees(Lakh) /\ a < Rupees(Crore)) =>
                   \E q \in {a \div Lakh, (a \div Lakh) + 1} :
                       RoundsTo(a, Lakh, q) /\ text = "₹" \o Fixed2(q) \o " L"
            /\ a < Rupees(Lakh) =>
                   \E n \in {a \div 100, (a \div 100) + 1} :
                       RoundsTo(a, 100, n) /\ text = "₹" \o Grouped(n)
            /\ a = Rupees(12345678) => text = "₹1.23 Cr"
            /\ a = Rupees(250000) => text = "₹2.50 L"
            /\ a = Rupees(500) => text = "₹500"
            /\ a = Rupees(Crore) => text = "₹1.00 Cr"
            /\ a = Rupees(Lakh) => text = "₹1.00 L"
            /\ a = Rupees(Lakh) - 50 => text = "₹100,000"

\* C17's case: the three amounts of the claim have been formatted.
C17_Witness ==
    /\ resp.op = "format_amount"
    /\ resp.amount \in {Rupees(12345678), Rupees(250000), Rupees(500)}
    /\ resp.text \in {"₹1.23 Cr", "₹2.50 L", "₹500"}

(***************************************************************************)
(* Properties of bookings that race.                                       *)
(***************************************************************************)
\* C18: a create_booking request for a stored lead is taken whatever the
\* state of its unit; and every create_booking that commits leaves its
\* booking PENDING, every other booking as it was, and its unit, if stored,
\* Blocked and linked to its own booking, whatever the unit was and whichever
\* booking it was linked to.
C18_LastBookingTakesUnit ==
    [][ /\ \A w \in Workers, b \in RaceBookings :
             (b.lead_id \in DOMAIN leads /\ create_booking_read(w, b)) =>
                 /\ inflight'[w].op = "create_booking"
                 /\ resp' = resp
        /\ \A w \in Workers :
             create_booking_commit(w, FALSE) =>
                 LET r == inflight[w]
                 IN  /\ resp' = Response("create_booking", 200)
                     /\ bookings' = [bookings EXCEPT ![r.id].status = "PENDING"]
                     /\ r.b.unit_id \in DOMAIN units =>
                            units' = [units EXCEPT ![r.b.unit_id] =
                                         [status |-> "Blocked", booking_id |-> r.id]]
      ]_vars

\* C18's case: two requests for unit 1 interleaved and both committed, the
\* one that flushed first committing last: both bookings are PENDING and the
\* unit is linked to the one of lower id.
C18_Witness ==
    /\ resp = Response("create_booking", 200)
    /\ \E i, j \in DOMAIN bookings :
          /\ i < j
          /\ bookings[i].unit_id = 1 /\ bookings[j].unit_id = 1
          /\ bookings[i].status = "PENDING" /\ bookings[j].status = "PENDING"
          /\ units[1] = [status |-> "Blocked", booking_id |-> i]

(***************************************************************************)
(* Properties of cancellations.                                            *)
(***************************************************************************)
\* C19: cancel_booking of a stored booking, whatever its status, answers 200
\* and leaves the booking CANCELLED and the booking's lead NEGOTIATION,
\* whatever status the lead had.
C19_CancelAnyStatus ==
    [][ \A id \in DOMAIN bookings :
            cancel_booking(id) =>
                /\ bookings[id].status \in {"PENDING", "CONFIRMED", "CANCELLED"}
                /\ resp' = Response("cancel_booking", 200)
                /\ bookings'[id].status = "CANCELLED"
                /\ leads'[bookings[id].lead_id].status = "NEGOTIATION"
      ]_vars

\* C19's case: the last request cancelled a booking, every booking is
\* CANCELLED, and the lead, whose status a request had edited (it is
\* stamped), is NEGOTIATION.
C19_Witness ==
    /\ resp = Response("cancel_booking", 200)
    /\ Len(bookings) = 2
    /\ \A id \in DOMAIN bookings : bookings[id].status = "CANCELLED"
    /\ leads[1].status = "NEGOTIATION"
    /\ leads[1].last_contact = "now"

(***************************************************************************)
(* Properties of the users' counters when assignments interleave.          *)
(***************************************************************************)
\* C20: every assign_lead that commits (and answers success) raises its
\* user's active_leads_count by exactly one and leaves the other counters,
\* and no other step changes a counter; so each counter is its initial value
\* plus the number of successful requests for its user.
C20_EverySuccessCountsOnce ==
    [][ /\ \A w \in Workers :
             assign_lead_commit(w) =>
                 users' = [users EXCEPT
                              ![inflight[w].user_id].active_leads_count = @ + 1]
        /\ (\A w \in Workers : ~assign_lead_commit(w)) => users' = users
      ]_vars

(***************************************************************************)
(* Properties of interactions.                                             *)
(***************************************************************************)
\* C21: every note (create_interaction) and every visit (create_visit) that
\* is recorded for a stored lead leaves that lead's last_contact stamped and,
\* when the request gives a follow-up date, the lead's next_followup equal
\* to it.
C21_InteractionStampsLead ==
    [][ \A i \in LeadInteractions :
            (/\ i.lead_id \in DOMAIN leads
             /\ \/ create_interaction(i, FALSE, FALSE)
                \/ create_visit(i, FALSE)
             /\ resp'.code = 200)
                => /\ leads'[i.lead_id].last_contact = "now"
                   /\ i.next_followup_date # NoDate =>
                          leads'[i.lead_id].next_followup = i.next_followup_date
      ]_vars

(***************************************************************************)
(* Properties of payments that race.                                       *)
(***************************************************************************)
\* C22: in every state no two schedule rows have the same booking id and
\* the same milestone, also when record_payment requests interleave between
\* the lookup and the commit.
C22_OneRowPerMilestone ==
    \A i, j \in DOMAIN schedules :
        (schedules[i].booking_id = schedules[j].booking_id
         /\ schedules[i].milestone = schedules[j].milestone) => i = j

(***************************************************************************)
(* Properties of the units' links.                                         *)
(***************************************************************************)
\* C23: in every state a unit has no booking_id exactly when its status is
\* Available.
C23_LinkedIffNotAvailable ==
    \A u \in DOMAIN units :
        units[u].booking_id = NoId <=> units[u].status = "Available"

(***************************************************************************)
(* Properties of leads that race.                                          *)
(***************************************************************************)
\* C24: in every state no two leads have the same phone, also when
\* create_lead requests interleave between the lookup and the commit.
C24_PhonesUnique ==
    \A i, j \in DOMAIN leads : leads[i].phone = leads[j].phone => i = j

(***************************************************************************)
(* Properties of the leads of a booking.                                   *)
(***************************************************************************)
ActiveBookingsOfLead(l) ==
    {i \in DOMAIN bookings : /\ bookings[i].lead_id = l
                             /\ bookings[i].status \in {"PENDING", "CONFIRMED"}}

\* C25: in every state reached by create_booking, confirm_booking and
\* cancel_booking a lead is BOOKED exactly when a booking that references it
\* is PENDING or CONFIRMED.
C25_BookedIffActiveBooking ==
    \A l \in DOMAIN leads : leads[l].status = "BOOKED" <=> ActiveBookingsOfLead(l) # {}

====
